---- MODULE Spec2Model ----
(***************************************************************************)
(* pafaders: the application registry (class Applications of               *)
(* src/src/pafaders/applications.py) with its Application objects, driven  *)
(* by the poll loop (check) and by the controller callbacks (set_volume,   *)
(* play_or_pause).                                                         *)
(*                                                                         *)
(* Application objects live in a heap (apps) and are referred to by id, as *)
(* Python refers to them by reference: app_list, the two index maps and    *)
(* playing_app hold ids.  List positions are 1-based here; the slot number *)
(* of the code is the position minus one.                                  *)
(*                                                                         *)
(* The mixer and the session bus are the environment.  A reconcile reads   *)
(* a mixer snapshot (a set of stream indices, listed in index order) and a *)
(* session snapshot (a sequence of URIs).  PulseAudio hands out stream     *)
(* indices in increasing order, so a stream that shows up for the first    *)
(* time has an index above every index seen before.  Calls on a session    *)
(* that is attached return normally.  Logging has no effect on the state.  *)
(***************************************************************************)
EXTENDS Integers, Sequences, FiniteSets, TLC

VARIABLES
    apps,                    \* heap: id -> Application object
    app_by_sink_input_index, \* Applications.app_by_sink_input_index
    app_by_player_uri,       \* Applications.app_by_player_uri
    app_list,                \* Applications.app_list (ids)
    playback_status_list,    \* Applications.playback_status_list
    playing_app,             \* Applications.playing_app (id, or NoApp)
    lock,                    \* Applications.lock: its holder, or NoThread
    session_status,          \* environment: PlaybackStatus each session reports
    max_index,               \* environment: highest stream index handed out
    session_starts,          \* environment: how many sessions have come up so far
    polls,                   \* how many polls have run, where a specification counts them
    calls,                   \* external calls made by the last operation
    raised,                  \* exception the last operation raised, or NoExc
    published,               \* the last operation published set_application_list
    killed,                  \* the poll loop died of an exception in check
    status_dirty,            \* history: a session status changed since the last reconcile
    prev_uris,               \* history: session snapshot of the last reconcile
    same_inputs,             \* history: the last reconcile saw what the one before saw
    pc,                      \* position of each thread inside a registry operation
    port_listeners,          \* MidiListener.port_listeners: port name -> driver object
    midi_in,                 \* MidiListener.midi_in: the retained MidiIn, or NoHandle
    midi_ins,                \* how many MidiIn objects have been created
    ports,                   \* environment: the input ports now listed, in order
    out_ports,               \* environment: the names of the output ports now listed
    scans,                   \* the scans of the last check_ports: MidiIn used, port opened
    wire,                    \* what the last driver operation did to the ports, in order
    msgs,                    \* messages the last operation published through the Controller
    closed,                  \* ports whose driver was shut down
    refreshing               \* position of each thread inside update_displays

vars == <<apps, app_by_sink_input_index, app_by_player_uri, app_list,
          playback_status_list, playing_app, lock, session_status, max_index,
          session_starts, polls, calls, raised, published, killed, status_dirty,
          prev_uris, same_inputs, pc, port_listeners, midi_in, midi_ins, ports,
          out_ports, scans, wire, msgs, closed, refreshing>>

(* The state of the MIDI side: MidiListener, its drivers and their ports. *)
driver_vars == <<port_listeners, midi_in, midi_ins, ports, out_ports, scans,
                 wire, msgs, closed, refreshing>>

(* The state of the registry side. *)
registry_vars == <<apps, app_by_sink_input_index, app_by_player_uri, app_list,
                   playback_status_list, playing_app, lock, session_status,
                   max_index, session_starts, polls, calls, raised, published,
                   killed, status_dirty, prev_uris, same_inputs, pc>>

-----------------------------------------------------------------------------
(* Bounds of the model *)

(* Streams the mixer may list under Spec, SpecPublish, SpecCtl, SpecConc, SpecCap. *)
MaxStreams == 3

PublishStreams == 2

CtlStreams == 2

ConcStreams == 2

CapStreams == 11

(* Polls a behaviour of SpecCap makes. *)
MaxCapPolls == 2

(* Sessions that come up on the bus in one behaviour. *)
MaxSessionStarts == 2

(* Program constants *)

Capacity == 8

-----------------------------------------------------------------------------
(* Values *)

None == "None"
NoApp == 0
NoSi == 0
NoExc == "none"
NoThread == "none"
NoHandle == 0

PLAYING == "Playing"
PAUSED == "Paused"
STOPPED == "Stopped"
PlaybackStatus == {PLAYING, PAUSED, STOPPED}

SpotifyUri == "org.mpris.MediaPlayer2.spotify"
RhythmboxUri == "org.mpris.MediaPlayer2.rhythmbox"
VlcUri == "org.mpris.MediaPlayer2.vlc"

(* The streams the mixer may list: index -> proplist. *)
Streams == 1..MaxStreams

application_name(si) ==
    CASE si \in {1, 4} -> "spotify"
      [] si \in {2, 3} -> "mpv"
      [] si = 5        -> "Firefox"
      [] OTHER         -> "mpv"

media_name(si) ==
    CASE si \in {1, 4} -> "Spotify"
      [] si \in {2, 3} -> "film"
      [] si = 5        -> "AudioStream"
      [] OTHER         -> "track"

(* The sessions the bus may list, and the Identity each reports. *)
Uris == {SpotifyUri, VlcUri}

Identity(uri) ==
    CASE uri = SpotifyUri   -> "Spotify"
      [] uri = RhythmboxUri -> "Rhythmbox"
      [] OTHER              -> "VLC media player"

(* Fader levels, as the controller value v of level v/127. *)
Levels == {0, 127}

Max(a, b) == IF a >= b THEN a ELSE b

SetMax(S) == IF S = {} THEN 0 ELSE CHOOSE x \in S : \A y \in S : y <= x

Range(f) == {f[x] : x \in DOMAIN f}

(* Sequences over S without repetition: the orders a snapshot may list S in. *)
Perms(S) ==
    {q \in [1..Cardinality(S) -> S] : \A i, j \in 1..Cardinality(S) : i # j => q[i] # q[j]}

UriSnapshots == UNION {Perms(S) : S \in SUBSET Uris}

-----------------------------------------------------------------------------
(* class Application and its subclasses *)

Subclasses == <<"Firefox", "Rhythmbox", "Spotify">>

handles_pa_sink_input(kind, si) ==
    CASE kind = "Firefox"   -> application_name(si) = "Firefox"
      [] kind = "Rhythmbox" -> application_name(si) = "Rhythmbox"
      [] kind = "Spotify"   -> application_name(si) = "spotify"
      [] OTHER              -> FALSE

handles_mpris_player_uri(kind, uri) ==
    CASE kind = "Rhythmbox" -> uri = RhythmboxUri
      [] kind = "Spotify"   -> uri = SpotifyUri
      [] OTHER              -> FALSE

handles(kind, si, uri) ==
    IF si = NoSi /\ uri = None THEN FALSE
    ELSE IF si # NoSi THEN handles_pa_sink_input(kind, si)
    ELSE handles_mpris_player_uri(kind, uri)

(* Application.__init__ *)
NewApplication(kind, si, uri) ==
    [kind                  |-> kind,
     pa_sink_inputs        |-> IF si # NoSi THEN <<si>> ELSE << >>,
     active_sink_inputs    |-> IF si # NoSi THEN {si} ELSE {},
     mpris_app             |-> uri,
     mpris_player          |-> uri,
     cached_mpris_identity |-> None]

(* Application.get: the first subclass that handles the source, else the base class. *)
get(si, uri) ==
    LET hit == {k \in 1..Len(Subclasses) : handles(Subclasses[k], si, uri)}
        app_class == IF hit = {} THEN "Application"
                     ELSE Subclasses[CHOOSE k \in hit : \A j \in hit : k <= j]
    IN NewApplication(app_class, si, uri)

mpris_identity(app) == Identity(app.mpris_app)

(* Application.name: the name, or KeyError when pop() meets an empty set. *)
name(app) ==
    IF app.mpris_app # None THEN <<mpris_identity(app)>>
    ELSE LET app_names == {application_name(app.pa_sink_inputs[k]) : k \in DOMAIN app.pa_sink_inputs}
             media_names == {media_name(app.pa_sink_inputs[k]) : k \in DOMAIN app.pa_sink_inputs}
         IN IF Cardinality(app_names) = 1 /\ Cardinality(media_names) = 1
            THEN <<CHOOSE n \in app_names : TRUE, ":", CHOOSE m \in media_names : TRUE>>
            ELSE IF app_names = {} THEN <<"KeyError">>
            ELSE <<CHOOSE n \in app_names : TRUE>>

name_raises(app) == name(app) = <<"KeyError">>

active(app) == app.active_sink_inputs # {} \/ app.mpris_player # None

(* The attribute app.active read without calling it: a bound method, which is truthy. *)
active_attribute(app) == TRUE

identity(app) == <<app.kind, name(app)>>

may_replace_app(self, other) == identity(self) = identity(other)

wants_sink_input(app, si) == handles_pa_sink_input(app.kind, si)

wants_player_uri(app, uri) == handles_mpris_player_uri(app.kind, uri)

Application_add_sink_input(app, si) ==
    [app EXCEPT !.pa_sink_inputs = Append(@, si),
                !.active_sink_inputs = @ \cup {si}]

Application_add_player_uri(app, uri) ==
    [app EXCEPT !.mpris_app = uri, !.mpris_player = uri]

Application_remove_sink_input_index(app, index) ==
    [app EXCEPT !.active_sink_inputs = @ \ {index}]

(* remove_player dropping mpris_app and leaving mpris_player in place. *)
remove_player_app_only(app) == [app EXCEPT !.mpris_app = None]

remove_player(app) ==
    [app EXCEPT !.mpris_app = None, !.mpris_player = None]

playback_status(app, status) ==
    IF app.mpris_player = None THEN None ELSE status[app.mpris_player]

(* External calls, as the records kept in calls. *)
Call(what, sink_input, player, arg) ==
    [call |-> what, sink_input |-> sink_input, player |-> player, arg |-> arg]

set_pa_volume(app, volume) ==
    {Call("volume_set_all_chans", si, None, volume) : si \in app.active_sink_inputs}

set_mpris_volume(app, volume) == {Call("Volume", NoSi, app.mpris_player, volume)}

(* Application.set_volume of the base class, for every kind: without the   *)
(* override of class Spotify.                                              *)
Application_set_volume_base(app, volume) ==
    IF app.mpris_player # None THEN set_mpris_volume(app, volume)
    ELSE set_pa_volume(app, volume)

Application_set_volume(app, volume) ==
    IF app.kind = "Spotify" THEN set_pa_volume(app, volume)
    ELSE IF app.mpris_player # None THEN set_mpris_volume(app, volume)
    ELSE set_pa_volume(app, volume)

Application_play_or_pause(app) ==
    IF app.mpris_player # None THEN {Call("PlayPause", NoSi, app.mpris_player, 0)} ELSE {}

play(app) ==
    IF app.mpris_player # None THEN {Call("Play", NoSi, app.mpris_player, 0)} ELSE {}

pause(app) ==
    IF app.mpris_player # None THEN {Call("Pause", NoSi, app.mpris_player, 0)} ELSE {}

(* What a session does with a transport control. *)
AfterCall(st, what) ==
    CASE what = "PlayPause" -> IF st = PLAYING THEN PAUSED ELSE PLAYING
      [] what = "Play"      -> PLAYING
      [] what = "Pause"     -> IF st = PLAYING THEN PAUSED ELSE st
      [] OTHER              -> st

(* The session statuses after the transport controls among cs (one per session). *)
StatusAfter(status, cs) ==
    [u \in DOMAIN status |->
        IF \E c \in cs : c.player = u /\ c.call \in {"PlayPause", "Play", "Pause"}
        THEN AfterCall(status[u], (CHOOSE c \in cs : c.player = u /\ c.call \in {"PlayPause", "Play", "Pause"}).call)
        ELSE status[u]]

-----------------------------------------------------------------------------
(* class Applications.  Its methods are operators on the registry record   *)
(* R; a method that may raise returns [R, ret, exc].                       *)

Registry ==
    [apps                    |-> apps,
     app_by_sink_input_index |-> app_by_sink_input_index,
     app_by_player_uri       |-> app_by_player_uri,
     app_list                |-> app_list,
     playing_app             |-> playing_app]

Result(R, ret, exc) == [R |-> R, ret |-> ret, exc |-> exc]

(* The id of a fresh object.  An object made from a stream is named by    *)
(* the stream's index, which no other stream ever has; an object made from *)
(* a session gets the first of -1, -2, ... that no live object has.        *)
NewId(R, si) ==
    IF si # NoSi THEN si
    ELSE CHOOSE n \in {-k : k \in 1..(Cardinality(DOMAIN R.apps) + 1)} :
            /\ n \notin DOMAIN R.apps
            /\ \A k \in 1..(-n - 1) : -k \in DOMAIN R.apps

Allocate(R, id, app) ==
    [R EXCEPT !.apps = [i \in DOMAIN R.apps \cup {id} |->
                            IF i = id THEN app ELSE R.apps[i]]]

(* Objects nothing refers to any more are freed. *)
Referenced(R) ==
    Range(R.app_list) \cup Range(R.app_by_sink_input_index)
        \cup Range(R.app_by_player_uri) \cup ({R.playing_app} \ {NoApp})

CollectGarbage(R) ==
    [R EXCEPT !.apps = [i \in DOMAIN R.apps \cap Referenced(R) |-> R.apps[i]]]

MapPut(f, k, v) == [x \in DOMAIN f \cup {k} |-> IF x = k THEN v ELSE f[x]]

MapPop(f, ks) == [x \in DOMAIN f \ ks |-> f[x]]

(* add_app's first loop without its test of active(): the scan takes the   *)
(* first slot whatever its state.                                          *)
replace_similar_ignoring_active(R, new_app, n) ==
    IF n > Len(R.app_list) THEN 0 ELSE n

(* add_app, first loop: the position of the first inactive slot the scan   *)
(* replaces, 0 when there is none, -1 when evaluating an identity raised.  *)
RECURSIVE replace_similar(_, _, _)
replace_similar(R, new_app, n) ==
    IF n > Len(R.app_list) THEN 0
    ELSE LET app == R.apps[R.app_list[n]] IN
         IF ~active(app)
         THEN IF name_raises(app) THEN -1
              ELSE IF may_replace_app(app, app) THEN n
              ELSE replace_similar(R, new_app, n + 1)
         ELSE replace_similar(R, new_app, n + 1)

(* add_app, second loop: the first slot whose active attribute is falsy. *)
RECURSIVE take_removed(_, _)
take_removed(R, n) ==
    IF n > Len(R.app_list) THEN 0
    ELSE IF ~active_attribute(R.apps[R.app_list[n]]) THEN n
    ELSE take_removed(R, n + 1)

is_full(R) == Len(R.app_list) > Capacity

add_app(R, new_app) ==
    LET place(n, m) ==
            IF n = -1 THEN Result(R, FALSE, "KeyError")
            ELSE IF n > 0 THEN Result([R EXCEPT !.app_list[n] = new_app], FALSE, NoExc)
            ELSE IF m > 0 THEN Result([R EXCEPT !.app_list[m] = new_app], TRUE, NoExc)
            ELSE Result([R EXCEPT !.app_list = Append(@, new_app)], TRUE, NoExc)
    IN place(replace_similar(R, new_app, 1),
             IF is_full(R) THEN take_removed(R, 1) ELSE 0)

(* The first slot of app_list whose Application wants the stream / the session; 0 if none. *)
first_wanting_sink_input(R, si) ==
    LET W == {n \in 1..Len(R.app_list) : wants_sink_input(R.apps[R.app_list[n]], si)}
    IN IF W = {} THEN 0 ELSE CHOOSE n \in W : \A k \in W : n <= k

first_wanting_player_uri(R, uri) ==
    LET W == {n \in 1..Len(R.app_list) : wants_player_uri(R.apps[R.app_list[n]], uri)}
    IN IF W = {} THEN 0 ELSE CHOOSE n \in W : \A k \in W : n <= k

add_sink_input(R, si) ==
    LET n == first_wanting_sink_input(R, si) IN
    IF n > 0
    THEN LET id == R.app_list[n] IN
         Result([R EXCEPT !.apps[id] = Application_add_sink_input(@, si),
                          !.app_by_sink_input_index = MapPut(@, si, id)],
                FALSE, NoExc)
    ELSE LET id == NewId(R, si)
             R1 == Allocate(R, id, get(si, None))
             R2 == [R1 EXCEPT !.app_by_sink_input_index = MapPut(@, si, id)]
         IN add_app(R2, id)

add_player_uri(R, uri) ==
    LET n == first_wanting_player_uri(R, uri) IN
    IF n > 0
    THEN LET id == R.app_list[n] IN
         Result([R EXCEPT !.apps[id] = Application_add_player_uri(@, uri),
                          !.app_by_player_uri = MapPut(@, uri, id)],
                FALSE, NoExc)
    ELSE LET id == NewId(R, NoSi)
             R1 == Allocate(R, id, get(NoSi, uri))
             R2 == [R1 EXCEPT !.app_by_player_uri = MapPut(@, uri, id)]
         IN add_app(R2, id)

(* remove_sink_input_index for every index of removed; the order does not matter. *)
remove_sink_input_indices(R, removed) ==
    LET hit == {R.app_by_sink_input_index[i] : i \in removed}
        new_apps == [id \in DOMAIN R.apps |->
                        [R.apps[id] EXCEPT !.active_sink_inputs =
                            @ \ {i \in removed : R.app_by_sink_input_index[i] = id}]]
    IN Result([R EXCEPT !.apps = new_apps,
                        !.app_by_sink_input_index = MapPop(@, removed)],
              \E id \in hit : ~active(new_apps[id]), NoExc)

(* update_sink_inputs, second loop: the streams of sinks from index n on. *)
RECURSIVE add_new_sink_inputs(_, _, _, _)
add_new_sink_inputs(R, sinks, n, changed) ==
    IF n > SetMax(sinks) THEN Result(R, changed, NoExc)
    ELSE IF n \in sinks /\ n \notin DOMAIN R.app_by_sink_input_index
    THEN LET added(r) ==
                 IF r.exc # NoExc THEN Result(r.R, changed, r.exc)
                 ELSE add_new_sink_inputs(r.R, sinks, n + 1, TRUE)
         IN added(add_sink_input(R, n))
    ELSE add_new_sink_inputs(R, sinks, n + 1, changed)

update_sink_inputs(R, sinks) ==
    LET removed_indices == DOMAIN R.app_by_sink_input_index \ sinks
        removed(r) == add_new_sink_inputs(r.R, sinks, 1, r.ret)
    IN removed(remove_sink_input_indices(R, removed_indices))

(* update_media_players, second loop: the URIs of uris from position k on, *)
(* with first_playing_app carried along.                                   *)
ScanResult(R, changed, exc, first_playing_app) ==
    [R |-> R, ret |-> changed, exc |-> exc, first_playing_app |-> first_playing_app]

RECURSIVE scan_player_uris(_, _, _, _, _, _)
scan_player_uris(R, uris, k, changed, first_playing_app, status) ==
    IF k > Len(uris) THEN ScanResult(R, changed, NoExc, first_playing_app)
    ELSE LET uri == uris[k]
             is_new == uri \notin DOMAIN R.app_by_player_uri
             known(r) ==
                 IF r.exc # NoExc THEN ScanResult(r.R, changed, r.exc, first_playing_app)
                 ELSE LET app == r.R.app_by_player_uri[uri]
                          st == playback_status(r.R.apps[app], status)
                          fpa == IF first_playing_app = NoApp
                                 THEN IF st # STOPPED THEN app ELSE NoApp
                                 ELSE IF st = PLAYING
                                         /\ playback_status(r.R.apps[first_playing_app], status) = PAUSED
                                      THEN app
                                      ELSE first_playing_app
                      IN scan_player_uris(r.R, uris, k + 1, changed \/ is_new, fpa, status)
         IN known(IF is_new THEN add_player_uri(R, uri) ELSE Result(R, FALSE, NoExc))

(* update_media_players, lines 324-334: the "currently playing" pointer. *)
new_playing_app(R, first_playing_app, status) ==
    IF first_playing_app = NoApp THEN R.playing_app
    ELSE IF R.playing_app = NoApp THEN first_playing_app
    ELSE IF playback_status(R.apps[first_playing_app], status) = PLAYING
            /\ playback_status(R.apps[R.playing_app], status) # PLAYING
         THEN first_playing_app
         ELSE R.playing_app

status_list(R, status) ==
    [n \in 1..Len(R.app_list) |-> playback_status(R.apps[R.app_list[n]], status)]

(* update_media_players, first loop: every vanished URI is popped and its player removed. *)
remove_player_uris(R, removed_uris) ==
    [R EXCEPT !.apps = [id \in DOMAIN R.apps |->
                            IF \E u \in removed_uris : R.app_by_player_uri[u] = id
                            THEN remove_player(R.apps[id]) ELSE R.apps[id]],
              !.app_by_player_uri = MapPop(@, removed_uris)]

update_media_players(R, uris, status, old_status_list) ==
    LET removed_uris == DOMAIN R.app_by_player_uri \ Range(uris)
        pointed(r, R2) ==
            Result(R2, r.ret \/ status_list(R2, status) # old_status_list, NoExc)
        scanned(r) ==
            IF r.exc # NoExc THEN Result(r.R, r.ret, r.exc)
            ELSE pointed(r, [r.R EXCEPT !.playing_app =
                                  new_playing_app(r.R, r.first_playing_app, status)])
    IN scanned(scan_player_uris(remove_player_uris(R, removed_uris), uris, 1,
                                removed_uris # {}, NoApp, status))

(* check: both halves; ret is whether set_application_list is published. *)
check(R, sinks, uris, status, old_status_list) ==
    LET changed(r0, r1) ==
            IF r1.exc # NoExc THEN Result(r1.R, FALSE, r1.exc)
            ELSE Result(r1.R, r0.ret \/ r1.ret, NoExc)
        half(r0) ==
            IF r0.exc # NoExc THEN Result(r0.R, FALSE, r0.exc)
            ELSE changed(r0, update_media_players(r0.R, uris, status, old_status_list))
    IN half(update_sink_inputs(R, sinks))

(* self.app_list[app] as Python indexes a list: the position, or 0 for IndexError. *)
PyIndex(list, i) ==
    IF 0 <= i /\ i < Len(list) THEN i + 1
    ELSE IF i < 0 /\ -Len(list) <= i THEN Len(list) + i + 1
    ELSE 0

(* set_volume: the external calls it makes. *)
set_volume(R, app, volume) ==
    LET p == PyIndex(R.app_list, app) IN
    IF p = 0 THEN {}
    ELSE IF active_attribute(R.apps[R.app_list[p]])
    THEN Application_set_volume(R.apps[R.app_list[p]], volume)
    ELSE {}

(* play_or_pause(app=None) toggling every Application of the table instead *)
(* of the one playing_app refers to.                                       *)
play_or_pause_every_slot(R) ==
    UNION {Application_play_or_pause(R.apps[R.app_list[n]]) : n \in 1..Len(R.app_list)}

(* play_or_pause(app=None): the external calls. *)
play_or_pause_current(R) == Application_play_or_pause(R.apps[R.playing_app])

(* play_or_pause(app=i) without the pause of the other slots. *)
play_or_pause_slot_alone(R, app, status) ==
    LET p == PyIndex(R.app_list, app)
        playing == playback_status(R.apps[R.app_list[p]], status) = PLAYING
    IN IF playing THEN pause(R.apps[R.app_list[p]]) ELSE play(R.apps[R.app_list[p]])

(* play_or_pause(app=i), i a list index that exists: the external calls. *)
play_or_pause_slot(R, app, status) ==
    LET p == PyIndex(R.app_list, app)
        playing == playback_status(R.apps[R.app_list[p]], status) = PLAYING
    IN IF playing THEN pause(R.apps[R.app_list[p]])
       ELSE UNION {IF n - 1 = app THEN play(R.apps[R.app_list[n]])
                   ELSE pause(R.apps[R.app_list[n]]) : n \in 1..Len(R.app_list)}

-----------------------------------------------------------------------------
(* The state machine: every operation runs to completion. *)

Threads == {"poll", "callback"}

SlotArgs == -1..Capacity

(* Where a thread is, and check()'s local changed0 for the poll thread. *)
Frame(where, changed0) == [at |-> where, changed0 |-> changed0]

(* Where a thread is inside update_displays: the statement it is at, the   *)
(* list its for loop iterates, the line it writes next, and                *)
(* how often it has refreshed since both threads were last at rest.        *)
Step(where, lines, line, ran) ==
    [at |-> where, lines |-> lines, line |-> line, ran |-> ran]

Init ==
    /\ apps = << >>
    /\ app_by_sink_input_index = << >>
    /\ app_by_player_uri = << >>
    /\ app_list = << >>
    /\ playback_status_list = << >>
    /\ playing_app = NoApp
    /\ lock = NoThread
    /\ session_status = [u \in Uris |-> STOPPED]
    /\ max_index = 0
    /\ session_starts = 0
    /\ polls = 0
    /\ calls = {}
    /\ raised = NoExc
    /\ published = FALSE
    /\ killed = FALSE
    /\ status_dirty = FALSE
    /\ prev_uris = << >>
    /\ same_inputs = FALSE
    /\ pc = [t \in Threads |-> Frame("idle", FALSE)]
    /\ port_listeners = << >>
    /\ midi_in = NoHandle
    /\ midi_ins = 0
    /\ ports = << >>
    /\ out_ports = {}
    /\ scans = << >>
    /\ wire = << >>
    /\ msgs = << >>
    /\ closed = {}
    /\ refreshing = [t \in Threads |-> Step("idle", << >>, 0, 0)]

At(t, where) == pc[t].at = where

Idle == lock = NoThread /\ \A t \in Threads : At(t, "idle")

SetRegistry(R) ==
    /\ apps' = CollectGarbage(R).apps
    /\ app_by_sink_input_index' = R.app_by_sink_input_index
    /\ app_by_player_uri' = R.app_by_player_uri
    /\ app_list' = R.app_list
    /\ playing_app' = R.playing_app

(* A mixer snapshot the environment can produce: new streams have new indices. *)
SinkSnapshot(sinks) ==
    \A i \in sinks \ DOMAIN app_by_sink_input_index : i > max_index

(* A session snapshot the environment can produce. *)
NewSessions(uris) == Range(uris) \ DOMAIN app_by_player_uri

UriSnapshot(uris) ==
    session_starts + Cardinality(NewSessions(uris)) <= MaxSessionStarts

SinkSnapshots(S) == {sinks \in SUBSET S : SinkSnapshot(sinks)}

SessionSnapshots == {uris \in UriSnapshots : UriSnapshot(uris)}

(* The statuses the sessions of the snapshot report: a session that just   *)
(* came up reports fresh[uri], one that is gone reports nothing any more.  *)
SnapshotStatus(uris, fresh) ==
    [u \in Uris |-> IF u \in DOMAIN fresh THEN fresh[u]
                    ELSE IF u \in Range(uris) THEN session_status[u]
                    ELSE STOPPED]

(* Applications.check(), one poll of the main loop. *)
Check(sinks, uris, fresh) ==
    /\ ~killed /\ Idle
    /\ UNCHANGED driver_vars
    /\ SinkSnapshot(sinks)
    /\ UriSnapshot(uris)
    /\ session_status' = SnapshotStatus(uris, fresh)
    /\ \E r \in {check(Registry, sinks, uris, session_status', playback_status_list)} :
       /\ SetRegistry(r.R)
       /\ raised' = r.exc
       /\ killed' = (r.exc # NoExc)
       /\ published' = r.ret
    /\ max_index' = Max(max_index, SetMax(sinks))
    /\ session_starts' = session_starts + Cardinality(NewSessions(uris))
    /\ calls' = {}
    /\ UNCHANGED <<playback_status_list, lock, pc>>

(* History of the reconciles: whether this one sees what the last one saw. *)
Observe(sinks, uris) ==
    /\ same_inputs' = (sinks = DOMAIN app_by_sink_input_index /\ uris = prev_uris
                        /\ ~status_dirty)
    /\ prev_uris' = uris
    /\ status_dirty' = FALSE

History == <<status_dirty, prev_uris, same_inputs>>

Reconcile(sinks, uris, fresh) ==
    /\ Check(sinks, uris, fresh)
    /\ Observe(sinks, uris)
    /\ UNCHANGED polls

(* Applications.set_volume(app=slot, volume=level), from the controller callback. *)
SetVolume(slot, level) ==
    /\ ~killed /\ Idle
    /\ UNCHANGED driver_vars
    /\ calls' = set_volume(Registry, slot, level)
    /\ raised' = NoExc
    /\ published' = FALSE
    /\ UNCHANGED <<apps, app_by_sink_input_index, app_by_player_uri, app_list,
                   playback_status_list, playing_app, lock, session_status,
                   max_index, session_starts, polls, killed, History, pc>>

(* Applications.play_or_pause(), no slot: the play button. *)
PlayOrPause ==
    /\ ~killed /\ Idle
    /\ UNCHANGED driver_vars
    /\ IF playing_app = NoApp
       THEN /\ raised' = "AttributeError"
            /\ calls' = {}
            /\ UNCHANGED session_status
       ELSE /\ raised' = NoExc
            /\ calls' = play_or_pause_current(Registry)
            /\ session_status' = StatusAfter(session_status, calls')
    /\ published' = FALSE
    /\ UNCHANGED <<apps, app_by_sink_input_index, app_by_player_uri, app_list,
                   playback_status_list, playing_app, lock, max_index,
                   session_starts, polls, killed, History, pc>>

(* Applications.play_or_pause(app=slot). *)
PlayOrPauseSlot(slot) ==
    /\ ~killed /\ Idle
    /\ UNCHANGED driver_vars
    /\ IF PyIndex(app_list, slot) = 0
       THEN /\ raised' = "IndexError"
            /\ calls' = {}
            /\ UNCHANGED session_status
       ELSE /\ raised' = NoExc
            /\ calls' = play_or_pause_slot(Registry, slot, session_status)
            /\ session_status' = StatusAfter(session_status, calls')
    /\ published' = FALSE
    /\ UNCHANGED <<apps, app_by_sink_input_index, app_by_player_uri, app_list,
                   playback_status_list, playing_app, lock, max_index,
                   session_starts, polls, killed, History, pc>>

(* Environment: a tracked session's playback status changes by itself. *)
StatusChange(uri, st) ==
    /\ ~killed /\ Idle
    /\ UNCHANGED driver_vars
    /\ uri \in DOMAIN app_by_player_uri
    /\ st # session_status[uri]
    /\ session_status' = [session_status EXCEPT ![uri] = st]
    /\ status_dirty' = TRUE
    /\ UNCHANGED <<apps, app_by_sink_input_index, app_by_player_uri, app_list,
                   playback_status_list, playing_app, lock, max_index,
                   session_starts, polls, calls, raised, published, killed,
                   prev_uris, same_inputs, pc>>

(* Applications.check() where the history of the reconciles is not kept. *)
Poll(sinks, uris, fresh) ==
    /\ Check(sinks, uris, fresh)
    /\ UNCHANGED <<History, polls>>

(* The registry under the poll loop alone. *)
Next ==
    \/ \E sinks \in SinkSnapshots(Streams), uris \in SessionSnapshots :
         \E fresh \in [NewSessions(uris) -> PlaybackStatus] :
            Poll(sinks, uris, fresh)
    \/ \E uri \in Uris, st \in PlaybackStatus : StatusChange(uri, st)

Spec == Init /\ [][Next]_vars

(* The poll loop with the history of its reconciles. *)
NextPublish ==
    \/ \E sinks \in SinkSnapshots(1..PublishStreams), uris \in SessionSnapshots :
         \E fresh \in [NewSessions(uris) -> PlaybackStatus] :
            Reconcile(sinks, uris, fresh)
    \/ \E uri \in Uris, st \in PlaybackStatus : StatusChange(uri, st)

SpecPublish == Init /\ [][NextPublish]_vars

(* The poll loop and the controller callbacks, one operation at a time. *)
NextCtl ==
    \/ \E sinks \in SinkSnapshots(1..CtlStreams), uris \in SessionSnapshots :
         \E fresh \in [NewSessions(uris) -> PlaybackStatus] :
            Poll(sinks, uris, fresh)
    \/ \E uri \in Uris, st \in PlaybackStatus : StatusChange(uri, st)
    \/ \E slot \in SlotArgs, level \in Levels : SetVolume(slot, level)
    \/ PlayOrPause
    \/ \E slot \in SlotArgs : PlayOrPauseSlot(slot)

SpecCtl == Init /\ [][NextCtl]_vars

(* The poll loop against a mixer with more streams than faders: every new  *)
(* stream is seen by the poll after it came up, no session is on the bus.  *)
CapSnapshots ==
    {sinks \in SinkSnapshots(1..CapStreams) :
        \A i \in sinks : i > max_index => (max_index + 1)..i \subseteq sinks}

PollCap(sinks) ==
    /\ polls < MaxCapPolls
    /\ Check(sinks, << >>, << >>)
    /\ polls' = polls + 1
    /\ UNCHANGED History

NextCap == \E sinks \in CapSnapshots : PollCap(sinks)

SpecCap == Init /\ [][NextCap]_vars

-----------------------------------------------------------------------------
(* The poll loop and the controller callback thread running concurrently.  *)
(* A thread enters an operation in one step and carries it out in another; *)
(* update_sink_inputs and set_volume are entered by taking self.lock,      *)
(* update_media_players and play_or_pause are entered as the code enters   *)
(* them, with no lock statement.                                           *)

Goto(t, where, changed0) == pc' = [pc EXCEPT ![t] = Frame(where, changed0)]

(* check() calls update_sink_inputs, which takes the lock. *)
EnterUpdateSinkInputs ==
    /\ ~killed /\ At("poll", "idle")
    /\ UNCHANGED driver_vars
    /\ lock = NoThread
    /\ lock' = "poll"
    /\ Goto("poll", "update_sink_inputs", FALSE)
    /\ UNCHANGED <<apps, app_by_sink_input_index, app_by_player_uri, app_list,
                   playback_status_list, playing_app, session_status, max_index,
                   session_starts, polls, calls, raised, published, killed, History>>

(* update_sink_inputs runs and releases the lock; check() goes on into     *)
(* update_media_players.                                                   *)
UpdateSinkInputs(sinks) ==
    /\ ~killed /\ At("poll", "update_sink_inputs")
    /\ UNCHANGED driver_vars
    /\ SinkSnapshot(sinks)
    /\ \E r \in {update_sink_inputs(Registry, sinks)} :
       /\ SetRegistry(r.R)
       /\ raised' = r.exc
       /\ killed' = (r.exc # NoExc)
       /\ Goto("poll", IF r.exc # NoExc THEN "idle" ELSE "update_media_players", r.ret)
    /\ lock' = NoThread
    /\ max_index' = Max(max_index, SetMax(sinks))
    /\ calls' = {}
    /\ published' = FALSE
    /\ UNCHANGED <<playback_status_list, session_status, session_starts, polls, History>>

(* update_media_players runs, and check() publishes if either half changed. *)
UpdateMediaPlayers(uris, fresh) ==
    /\ ~killed /\ At("poll", "update_media_players")
    /\ UNCHANGED driver_vars
    /\ UriSnapshot(uris)
    /\ session_status' = SnapshotStatus(uris, fresh)
    /\ \E r \in {update_media_players(Registry, uris, session_status', playback_status_list)} :
       /\ SetRegistry(r.R)
       /\ raised' = r.exc
       /\ killed' = (r.exc # NoExc)
       /\ published' = (r.exc = NoExc /\ (pc["poll"].changed0 \/ r.ret))
    /\ Goto("poll", "idle", FALSE)
    /\ session_starts' = session_starts + Cardinality(NewSessions(uris))
    /\ calls' = {}
    /\ UNCHANGED <<playback_status_list, lock, max_index, polls, History>>

(* The callback thread calls set_volume, which takes the lock. *)
EnterSetVolume ==
    /\ ~killed /\ At("callback", "idle")
    /\ UNCHANGED driver_vars
    /\ lock = NoThread
    /\ lock' = "callback"
    /\ Goto("callback", "set_volume", FALSE)
    /\ UNCHANGED <<apps, app_by_sink_input_index, app_by_player_uri, app_list,
                   playback_status_list, playing_app, session_status, max_index,
                   session_starts, polls, calls, raised, published, killed, History>>

(* set_volume runs and releases the lock. *)
ExitSetVolume(slot, level) ==
    /\ ~killed /\ At("callback", "set_volume")
    /\ UNCHANGED driver_vars
    /\ calls' = set_volume(Registry, slot, level)
    /\ raised' = NoExc
    /\ lock' = NoThread
    /\ Goto("callback", "idle", FALSE)
    /\ UNCHANGED <<apps, app_by_sink_input_index, app_by_player_uri, app_list,
                   playback_status_list, playing_app, session_status, max_index,
                   session_starts, polls, published, killed, History>>

(* The callback thread calls play_or_pause(). *)
EnterPlayOrPause ==
    /\ ~killed /\ At("callback", "idle")
    /\ UNCHANGED driver_vars
    /\ Goto("callback", "play_or_pause", FALSE)
    /\ UNCHANGED <<apps, app_by_sink_input_index, app_by_player_uri, app_list,
                   playback_status_list, playing_app, lock, session_status, max_index,
                   session_starts, polls, calls, raised, published, killed, History>>

(* play_or_pause() runs. *)
ExitPlayOrPause ==
    /\ ~killed /\ At("callback", "play_or_pause")
    /\ UNCHANGED driver_vars
    /\ IF playing_app = NoApp
       THEN /\ raised' = "AttributeError"
            /\ calls' = {}
            /\ UNCHANGED session_status
       ELSE /\ raised' = NoExc
            /\ calls' = play_or_pause_current(Registry)
            /\ session_status' = StatusAfter(session_status, calls')
    /\ Goto("callback", "idle", FALSE)
    /\ UNCHANGED <<apps, app_by_sink_input_index, app_by_player_uri, app_list,
                   playback_status_list, playing_app, lock, max_index,
                   session_starts, polls, published, killed, History>>

NextConc ==
    \/ EnterUpdateSinkInputs
    \/ \E sinks \in SinkSnapshots(1..ConcStreams) : UpdateSinkInputs(sinks)
    \/ \E uris \in SessionSnapshots :
         \E fresh \in [NewSessions(uris) -> PlaybackStatus] :
            UpdateMediaPlayers(uris, fresh)
    \/ EnterSetVolume
    \/ \E slot \in SlotArgs, level \in Levels : ExitSetVolume(slot, level)
    \/ EnterPlayOrPause
    \/ ExitPlayOrPause

SpecConc == Init /\ [][NextConc]_vars

-----------------------------------------------------------------------------
(* Properties of the slot table *)

Slots == 1..Len(app_list)

SlotApp(n) == apps[app_list[n]]

InactiveSlots(R) == {n \in 1..Len(R.app_list) : ~active(R.apps[R.app_list[n]])}

(* The inactive slots of R whose Application has the identity of app. *)
SameIdentitySlots(R, app) ==
    {n \in InactiveSlots(R) :
        /\ ~name_raises(R.apps[R.app_list[n]])
        /\ identity(R.apps[R.app_list[n]]) = identity(app)}

Lowest(S) == CHOOSE n \in S : \A m \in S : n <= m

(* The streams this step began to track, and the registry as it was when   *)
(* they were added: after the vanished streams of the step were removed.   *)
AddedStreams == DOMAIN app_by_sink_input_index' \ DOMAIN app_by_sink_input_index

AfterRemovals ==
    remove_sink_input_indices(
        Registry, DOMAIN app_by_sink_input_index \ DOMAIN app_by_sink_input_index').R

(* C1: after any sequence of reconciles the slot table holds at most       *)
(* Capacity = 8 Applications.                                              *)
C1_SlotTableWithinCapacity == Len(app_list) <= Capacity

(* C2: a reconcile that creates a new Application while an inactive slot   *)
(* holds an Application of the same identity puts the new Application in   *)
(* such a slot, not in another inactive slot and not at the end.  Stated   *)
(* for a reconcile that completes and adds one stream no Application wants.*)
C2_SameIdentitySlotReused ==
    [][\A i \in Streams :
          (/\ AddedStreams = {i}
           /\ raised' = NoExc
           /\ DOMAIN app_by_player_uri' = DOMAIN app_by_player_uri
           /\ first_wanting_sink_input(AfterRemovals, i) = 0
           /\ SameIdentitySlots(AfterRemovals, get(i, None)) # {})
          => \E n \in SameIdentitySlots(AfterRemovals, get(i, None)) :
                app_list' = [app_list EXCEPT ![n] = app_by_sink_input_index'[i]]]_vars

(* C3: with the table at capacity, a new Application that no inactive slot *)
(* shares its identity with overwrites the lowest inactive slot; when      *)
(* every slot is active the table is left as it is and the new Application *)
(* is tracked in the index map only.                                       *)
C3_FullTablePlacement ==
    [][\A i \in 1..CapStreams :
          (/\ AddedStreams = {i}
           /\ raised' = NoExc
           /\ Len(app_list) = Capacity
           /\ first_wanting_sink_input(AfterRemovals, i) = 0
           /\ SameIdentitySlots(AfterRemovals, get(i, None)) = {})
          => IF InactiveSlots(AfterRemovals) # {}
             THEN app_list' = [app_list EXCEPT ![Lowest(InactiveSlots(AfterRemovals))] =
                                                   app_by_sink_input_index'[i]]
             ELSE /\ app_list' = app_list
                  /\ app_by_sink_input_index'[i] \notin Range(app_list')]_vars

(* The Applications a stream or a session backs, by the index maps. *)
Backed == Range(app_by_sink_input_index) \cup Range(app_by_player_uri)

(* C4: the slot table changes only by appending a new Application or by    *)
(* overwriting, with a new Application, a slot whose Application has no    *)
(* backing reference left: an Application that is still backed keeps its   *)
(* slot, an inactive one stays in place, the table never shrinks and       *)
(* never reorders.                                                         *)
C4_SlotsStable ==
    [][/\ Len(app_list') >= Len(app_list)
       /\ \A n \in 1..Len(app_list) :
            \/ app_list'[n] = app_list[n]
            \/ /\ app_list[n] \notin Backed'
               /\ app_list'[n] \notin DOMAIN apps
       /\ \A n \in (Len(app_list) + 1)..Len(app_list') :
            app_list'[n] \notin DOMAIN apps]_vars

(* C4's case: a younger stream's Application sits before an older one's,   *)
(* so a slot was overwritten, and an inactive placeholder is in the table. *)
C4_Witness ==
    /\ \E n, m \in Slots : n < m /\ app_list[n] > app_list[m] /\ app_list[m] > 0
    /\ \E n \in Slots : ~active(SlotApp(n))
    /\ \E n \in Slots : active(SlotApp(n))

(* C5: a reconcile that sees the mixer snapshot and the session snapshot   *)
(* of the reconcile before it, with no playback status changed in between, *)
(* does not publish set_application_list.                                  *)
C5_NoRedundantPublish == same_inputs => ~published

-----------------------------------------------------------------------------
(* Properties of the controller callbacks *)

HasSession(n) == SlotApp(n).mpris_player # None

SlotStatus(n, status) == playback_status(SlotApp(n), status)

Transport(what, n) == Call(what, NoSi, SlotApp(n).mpris_player, 0)

RegistryUnchanged ==
    UNCHANGED <<apps, app_by_sink_input_index, app_by_player_uri, app_list,
                playback_status_list, playing_app>>

(* C7: play_or_pause with no slot while no "currently playing" Application *)
(* is tracked is a no-op: no error is raised, no session control invoked.  *)
C7_PlayWithoutPointerIsNoOp ==
    [][(PlayOrPause /\ playing_app = NoApp)
          => (raised' = NoExc /\ calls' = {} /\ RegistryUnchanged)]_vars

(* C8: set_volume with a slot index that is negative, or at or past the    *)
(* length of the table, or of an inactive slot, makes no external volume   *)
(* call, raises no error and leaves the registry as it is.                 *)
C8_SetVolumeIgnoresBadSlot ==
    [][\A slot \in SlotArgs, level \in Levels :
          (/\ SetVolume(slot, level)
           /\ \/ slot < 0
              \/ slot >= Len(app_list)
              \/ ~active(SlotApp(slot + 1)))
          => (calls' = {} /\ raised' = NoExc /\ RegistryUnchanged)]_vars

(* C9: play_or_pause(slot i), i the index of a slot: if slot i is Playing  *)
(* it is paused and no other Application gets a transport command;         *)
(* otherwise slot i gets play and every other slot gets pause, and         *)
(* afterwards no slot other than i is Playing.                             *)
C9_PlayOrPauseSlot ==
    [][\A slot \in 0..(Len(app_list) - 1) :
          PlayOrPauseSlot(slot) =>
            LET p == slot + 1
                others == Slots \ {p}
            IN IF SlotStatus(p, session_status) = PLAYING
               THEN /\ calls' = {Transport("Pause", p)}
                    /\ SlotStatus(p, session_status') = PAUSED
                    /\ \A n \in others :
                          SlotStatus(n, session_status') = SlotStatus(n, session_status)
               ELSE /\ calls' = {Transport("Play", n) : n \in {p} \cap {m \in Slots : HasSession(m)}}
                                  \cup {Transport("Pause", n) : n \in {m \in others : HasSession(m)}}
                    /\ HasSession(p) => SlotStatus(p, session_status') = PLAYING
                    /\ \A n \in others : SlotStatus(n, session_status') # PLAYING]_vars

(* C9's case: one slot was played while another, Playing until then, was paused. *)
C9_Witness ==
    /\ \E c \in calls : c.call = "Play"
    /\ \E c \in calls : c.call = "Pause" /\ session_status[c.player] = PAUSED
    /\ raised = NoExc

(* C10: play_or_pause with no slot toggles only the Application the        *)
(* "currently playing" pointer refers to: no other session gets a command  *)
(* or changes its playback state, and the pointer does not move.           *)
C10_PlayOrPauseTogglesPointerOnly ==
    [][(PlayOrPause /\ playing_app # NoApp) =>
          LET uri == apps[playing_app].mpris_player IN
          /\ calls' = IF uri = None THEN {} ELSE {Call("PlayPause", NoSi, uri, 0)}
          /\ \A u \in Uris \ {uri} : session_status'[u] = session_status[u]
          /\ uri # None => session_status'[uri] # session_status[uri]
          /\ playing_app' = playing_app
          /\ RegistryUnchanged]_vars

(* C10's case: the pointer's session was toggled while another session is tracked. *)
C10_Witness ==
    /\ \E c \in calls : c.call = "PlayPause"
    /\ Cardinality(DOMAIN app_by_player_uri) = 2
    /\ \E u \in DOMAIN app_by_player_uri :
          app_by_player_uri[u] # playing_app /\ session_status[u] # STOPPED

-----------------------------------------------------------------------------
(* Properties of the two threads *)

RegistryOps == {"update_sink_inputs", "update_media_players", "set_volume", "play_or_pause"}

InRegistryOp(t) == pc[t].at \in RegistryOps

(* C6: the registry operations (both halves of the reconcile, set_volume,  *)
(* play_or_pause) are mutually exclusive: the poll thread and the callback *)
(* thread are never inside registry operations at the same time, and a     *)
(* thread inside one holds the registry lock.                              *)
C6_RegistryOpsMutuallyExclusive ==
    /\ ~(InRegistryOp("poll") /\ InRegistryOp("callback"))
    /\ \A t \in Threads : InRegistryOp(t) => lock = t

-----------------------------------------------------------------------------
(* Properties of the "currently playing" pointer *)

(* The positions of the session snapshot whose session reports a status in S. *)
Reporting(uris, status, S) == {k \in 1..Len(uris) : status[uris[k]] \in S}

(* What C11 says of one reconcile, uris its session snapshot. *)
PointerRule(uris) ==
    LET playing == Reporting(uris, session_status', {PLAYING})
        not_stopped == Reporting(uris, session_status', {PLAYING, PAUSED})
    IN /\ playing # {} =>
            /\ playing_app' # NoApp
            /\ playing_app' \in DOMAIN apps'
            /\ playback_status(apps'[playing_app'], session_status') = PLAYING
       /\ (/\ playing_app \in DOMAIN apps'
           /\ playback_status(apps'[playing_app], session_status') = PLAYING)
            => playing_app' = playing_app
       /\ (playing_app = NoApp /\ playing = {}) =>
            playing_app' = IF not_stopped = {} THEN NoApp
                           ELSE app_by_player_uri'[uris[Lowest(not_stopped)]]

(* C11: after every reconcile: if a session reports Playing the pointer    *)
(* refers to an Application whose status is Playing; an incumbent that is  *)
(* Playing is not replaced; and a pointer that was unset while no session  *)
(* is Playing becomes the first Application in snapshot order whose status *)
(* is not Stopped.                                                         *)
C11_PlayingPointer ==
    [][status_dirty' = FALSE => PointerRule(prev_uris')]_vars

(* C11 for the reconciles that return: the rule holds whenever check()     *)
(* raises nothing.                                                         *)
C11_PlayingPointerOnReturn ==
    [][(status_dirty' = FALSE /\ raised' = NoExc) => PointerRule(prev_uris')]_vars

-----------------------------------------------------------------------------
(* The MIDI side: src/pafaders/midi.py.  A MIDI message is a sequence of   *)
(* bytes, a text is the sequence of its character codes.                   *)

(* rtmidi.midiconstants *)
CONTROL_CHANGE == 176

SYSTEM_EXCLUSIVE == 240

END_OF_EXCLUSIVE == 247

(* CONTROL_CHANGE | 0xF: the low four bits of CONTROL_CHANGE are clear. *)
CHAN_16_CC == CONTROL_CHANGE + 15

MANUFACTURER_ID == <<0, 32, 41>>

PID == 2

SYSEX_PREFIX == <<SYSTEM_EXCLUSIVE>> \o MANUFACTURER_ID \o <<3, 3>>

TEXT_SYSEX_PREFIX == SYSEX_PREFIX \o <<17, 4, PID>>

AUTOMAP_ENGAGE_SYSEX == SYSEX_PREFIX \o <<16, 5, PID, 0, 1, 1, END_OF_EXCLUSIVE>>

PORT_NAME == "ReMOTE ZeRO SL MIDI 3"

FADERS == 16..23

PLAY == 75

(* Character codes *)
Blank == 32

Dash == 45

Repeat(c, n) == [k \in 1..n |-> c]

Take(text, n) == IF Len(text) <= n THEN text ELSE SubSeq(text, 1, n)

(* f"{text:<width}" *)
LeftAlign(text, width) ==
    IF Len(text) >= width THEN text ELSE text \o Repeat(Blank, width - Len(text))

(* f"{text:^width}": of an odd number of blanks the right side gets one more. *)
Center(text, width) ==
    IF Len(text) >= width THEN text
    ELSE LET pad == width - Len(text)
         IN Repeat(Blank, pad \div 2) \o text \o Repeat(Blank, pad - pad \div 2)

(* " ".join(texts) *)
RECURSIVE Join(_)
Join(texts) ==
    IF texts = << >> THEN << >>
    ELSE IF Len(texts) = 1 THEN texts[1]
    ELSE texts[1] \o <<Blank>> \o Join(Tail(texts))

(* "pafaders" *)
Title == <<112, 97, 102, 97, 100, 101, 114, 115>>

(* PlaybackStatus.value as text *)
StatusText(status) ==
    CASE status = PLAYING -> <<80, 108, 97, 121, 105, 110, 103>>
      [] status = PAUSED  -> <<80, 97, 117, 115, 101, 100>>
      [] status = STOPPED -> <<83, 116, 111, 112, 112, 101, 100>>

(* What happens at the ports, as the records kept in wire. *)
Event(port, what, frame) == [port |-> port, event |-> what, frame |-> frame]

Send(port, frame) == Event(port, "send", frame)

Receive(port, octets) == Event(port, "receive", octets)

(* RemoteZeroSLListener.clear_displays: the frames it sends. *)
clear_display_frame(display) ==
    <<SYSTEM_EXCLUSIVE>> \o MANUFACTURER_ID \o TEXT_SYSEX_PREFIX
        \o <<0, 2, 2, display, END_OF_EXCLUSIVE>>

clear_displays(port) ==
    <<Send(port, clear_display_frame(4)), Send(port, clear_display_frame(5))>>

(* RemoteZeroSLListener.show_text: the frame it sends. *)
show_text_frame(display, line, column, text) ==
    <<SYSTEM_EXCLUSIVE>> \o MANUFACTURER_ID \o TEXT_SYSEX_PREFIX
        \o <<0, 2, 1, column, line * 2 + display + 1, 4>>
        \o text \o <<END_OF_EXCLUSIVE>>

show_text(port, display, line, column, text) ==
    Send(port, show_text_frame(display, line, column, text))

(* RemoteZeroSLListener.update_displays: app_display is "" after            *)
(* construction, which has no lines, and a list of two lines from then on.  *)
update_displays(port, app_display) ==
    clear_displays(port)
        \o <<show_text(port, 0, 0, 0, Title)>>
        \o [line \in 1..Len(app_display) |->
               show_text(port, 1, line - 1, 0, app_display[line])]

(* What set_application_list reads of an Application: active(), name() and *)
(* playback_status.                                                        *)
View(is_active, text, status) == [active |-> is_active, name |-> text, status |-> status]

app_state_field(view) ==
    IF view.status = None THEN Repeat(Blank, 8) ELSE Center(StatusText(view.status), 8)

(* The name field without the slice [0:8]. *)
app_name_field_unsliced(view) ==
    IF ~view.active THEN Repeat(Dash, 8) ELSE LeftAlign(view.name, 8)

app_name_field(view) ==
    IF ~view.active THEN Repeat(Dash, 8) ELSE LeftAlign(Take(view.name, 8), 8)

(* RemoteZeroSLListener.set_application_list: the new app_display. *)
set_application_list(views) ==
    <<Join([n \in 1..Len(views) |-> app_name_field(views[n])]),
      Join([n \in 1..Len(views) |-> app_state_field(views[n])])>>

(* The ports the environment may list.  The first two carry PORT_NAME in   *)
(* their name, as ALSA lists the ports of two such controllers.            *)
FirstPort == "ReMOTE ZeRO SL MIDI 3"

SecondPort == "ReMOTE ZeRO SL MIDI 3 #2"

OtherPort == "Midi Through Port-0"

PortNames == {FirstPort, SecondPort, OtherPort}

(* RemoteZeroSLListener.handles: PORT_NAME in port_name. *)
RemoteZeroSL_handles(port_name) == port_name \in {PORT_NAME, SecondPort}

(* MidiPortListener.get_class with LISTEN_TO_ALL_PORTS off. *)
get_class(port_name) == IF RemoteZeroSL_handles(port_name) THEN "RemoteZeroSLListener" ELSE None

(* A driver object: what RemoteZeroSLListener keeps. *)
Listener(port_name, app_display) == [port_name |-> port_name, app_display |-> app_display]

(* class MidiListener, with what its calls do at the ports. *)
Listeners ==
    [port_listeners |-> port_listeners,
     midi_in        |-> midi_in,
     midi_ins       |-> midi_ins,
     scans          |-> << >>,
     wire           |-> << >>]

(* name in self.port_listeners *)
Owned(L, port_name) == \E k \in 1..Len(L.port_listeners) : L.port_listeners[k].port_name = port_name

Scan(handle, opened) == [handle |-> handle, opened |-> opened]

(* RemoteZeroSLListener.__init__ past the subscription: what it does at    *)
(* the ports when the output port is found.                                *)
init_listener(port_name) ==
    <<Event(port_name, "open_out", << >>), Send(port_name, AUTOMAP_ENGAGE_SYSEX)>>
        \o update_displays(port_name, << >>)

(* check_ports, the for loop of one scan from position k on, midi_in the   *)
(* MidiIn of this scan.  failing: the ports whose open_port raises          *)
(* rtmidi.SystemError; outs: the output ports listed.  "opened" leaves the *)
(* loop by break, "done" by its else branch, "raised" by an exception that *)
(* the except clause does not name.                                        *)
ScanStep(L, how, exc) == [L |-> L, how |-> how, exc |-> exc]

RECURSIVE scan_ports(_, _, _, _, _, _)
scan_ports(L, this_midi_in, names, k, failing, outs) ==
    IF k > Len(names)
    THEN ScanStep([L EXCEPT !.midi_in = this_midi_in,
                            !.scans = Append(@, Scan(this_midi_in, FALSE))],
                  "done", NoExc)
    ELSE IF Owned(L, names[k]) \/ get_class(names[k]) = None
    THEN scan_ports(L, this_midi_in, names, k + 1, failing, outs)
    ELSE IF names[k] \in failing
    THEN scan_ports(L, this_midi_in, names, k + 1, failing, outs)
    ELSE IF names[k] \notin outs
    THEN ScanStep([L EXCEPT !.wire = Append(@, Event(names[k], "open_in", << >>)),
                            !.scans = Append(@, Scan(this_midi_in, TRUE))],
                  "raised", "SystemError")
    ELSE ScanStep([L EXCEPT !.wire = Append(@, Event(names[k], "open_in", << >>))
                                        \o init_listener(names[k]),
                            !.port_listeners = Append(@, Listener(names[k], << >>)),
                            !.midi_in = NoHandle,
                            !.scans = Append(@, Scan(this_midi_in, TRUE))],
                  "opened", NoExc)

(* check_ports making a new MidiIn for every scan. *)
RECURSIVE check_ports_new_midi_in(_, _, _, _)
check_ports_new_midi_in(L, names, failing, outs) ==
    LET scanned(s) ==
            IF s.how = "opened" THEN check_ports_new_midi_in(s.L, names, failing, outs)
            ELSE s
    IN scanned(scan_ports([L EXCEPT !.midi_ins = @ + 1],
                          L.midi_ins + 1, names, 1, failing, outs))

(* check_ports without its while loop: one scan a call. *)
check_ports_one_scan(L, names, failing, outs) ==
    scan_ports([L EXCEPT !.midi_ins = IF L.midi_in = NoHandle THEN @ + 1 ELSE @],
               IF L.midi_in = NoHandle THEN L.midi_ins + 1 ELSE L.midi_in,
               names, 1, failing, outs)

(* check_ports: scans until one opens no port. *)
RECURSIVE check_ports(_, _, _, _)
check_ports(L, names, failing, outs) ==
    LET fresh == L.midi_in = NoHandle
        this_midi_in == IF fresh THEN L.midi_ins + 1 ELSE L.midi_in
        scanned(s) ==
            IF s.how = "opened" THEN check_ports(s.L, names, failing, outs) ELSE s
    IN scanned(scan_ports([L EXCEPT !.midi_ins = IF fresh THEN @ + 1 ELSE @],
                          this_midi_in, names, 1, failing, outs))

(* shutdown releasing the port before it clears the displays. *)
shutdown_close_first(port_name) ==
    <<Event(port_name, "close", << >>)>> \o clear_displays(port_name)

(* RemoteZeroSLListener.shutdown, then MidiPortListener.shutdown. *)
shutdown(port_name) ==
    clear_displays(port_name) \o <<Event(port_name, "close", << >>)>>

(* MidiListener.__exit__: every driver is shut down, in the order of the dict. *)
RECURSIVE exit_listeners(_)
exit_listeners(listeners) ==
    IF listeners = << >> THEN << >>
    ELSE shutdown(listeners[1].port_name) \o exit_listeners(Tail(listeners))

(* value / 127.0 as a fraction in lowest terms. *)
RECURSIVE GCD(_, _)
GCD(a, b) == IF b = 0 THEN a ELSE GCD(b, a % b)

Ratio(n, d) == [num |-> n \div GCD(n, d), den |-> d \div GCD(n, d)]

(* A message published through the Controller. *)
Message(what, app, volume) ==
    [message |-> what, app |-> app, volume |-> volume, apps |-> << >>]

NoSlot == -1

NoVolume == Ratio(0, 1)

(* RemoteZeroSLListener.callback: the exception it raises on octets. *)
callback_raises(octets) ==
    IF octets = << >> THEN "IndexError"
    ELSE IF octets[1] = CHAN_16_CC /\ Len(octets) # 3 THEN "ValueError"
    ELSE NoExc

(* callback publishing play_or_pause on every message of the PLAY control, *)
(* the release of the button included.                                     *)
callback_control_any_value(control, value) ==
    IF control \in FADERS
    THEN <<Message("set_volume", control - Lowest(FADERS), Ratio(value, 127))>>
    ELSE IF control = PLAY
    THEN <<Message("play_or_pause", NoSlot, NoVolume)>>
    ELSE << >>

(* RemoteZeroSLListener.callback: what it publishes, octets[0] being CHAN_16_CC. *)
callback_control(control, value) ==
    IF control \in FADERS
    THEN <<Message("set_volume", control - Lowest(FADERS), Ratio(value, 127))>>
    ELSE IF control = PLAY /\ value = 1
    THEN <<Message("play_or_pause", NoSlot, NoVolume)>>
    ELSE << >>

callback_messages(octets) ==
    IF callback_raises(octets) # NoExc THEN << >>
    ELSE IF octets[1] = CHAN_16_CC THEN callback_control(octets[2], octets[3])
    ELSE << >>

-----------------------------------------------------------------------------
(* The MIDI side as a state machine.  The program runs until __exit__ has  *)
(* shut the drivers down.                                                  *)

Quiet == \A t \in Threads : refreshing[t].at = "idle"

Running == ~killed /\ closed = {} /\ Idle /\ Quiet

SetListeners(L) ==
    /\ port_listeners' = L.port_listeners
    /\ midi_in' = L.midi_in
    /\ midi_ins' = L.midi_ins
    /\ scans' = L.scans
    /\ wire' = L.wire

(* The orders the environment may list the ports in. *)
PortLists == UNION {Perms(S) : S \in SUBSET PortNames}

(* Environment: ports come and go. *)
PortsChange(names, outs) ==
    /\ Running
    /\ <<names, outs>> # <<ports, out_ports>>
    /\ ports' = names
    /\ out_ports' = outs
    /\ UNCHANGED <<port_listeners, midi_in, midi_ins, scans, wire, msgs, closed,
                   refreshing>>
    /\ UNCHANGED registry_vars

(* MidiListener.check_ports(), from the main loop; an exception it raises  *)
(* ends the loop.                                                          *)
CheckPorts(failing) ==
    /\ Running
    /\ \E s \in {check_ports(Listeners, ports, failing, out_ports)} :
          /\ SetListeners(s.L)
          /\ raised' = s.exc
          /\ killed' = (s.exc # NoExc)
    /\ msgs' = << >>
    /\ calls' = {}
    /\ published' = FALSE
    /\ UNCHANGED <<ports, out_ports, closed, refreshing>>
    /\ UNCHANGED <<apps, app_by_sink_input_index, app_by_player_uri, app_list,
                   playback_status_list, playing_app, lock, session_status,
                   max_index, session_starts, polls, History, pc>>

(* Controller.set_application_list(apps): every driver renders the list    *)
(* and redraws its displays.                                               *)
RECURSIVE redraw(_, _)
redraw(listeners, app_display) ==
    IF listeners = << >> THEN << >>
    ELSE update_displays(listeners[1].port_name, app_display)
            \o redraw(Tail(listeners), app_display)

SetApplicationList(views) ==
    /\ Running
    /\ port_listeners # << >>
    /\ port_listeners' = [k \in 1..Len(port_listeners) |->
                             Listener(port_listeners[k].port_name, set_application_list(views))]
    /\ wire' = redraw(port_listeners, set_application_list(views))
    /\ msgs' = <<[Message("set_application_list", NoSlot, NoVolume) EXCEPT !.apps = views]>>
    /\ UNCHANGED <<midi_in, midi_ins, ports, out_ports, scans, closed, refreshing>>
    /\ UNCHANGED registry_vars

(* Controller.set_volume / Controller.play_or_pause: the subscribers are   *)
(* Applications.set_volume and Applications.play_or_pause.                 *)
Dispatch(published_msgs, exc) ==
    IF published_msgs = << >>
    THEN /\ raised' = exc
         /\ calls' = {}
         /\ UNCHANGED session_status
    ELSE IF published_msgs[1].message = "set_volume"
    THEN /\ raised' = NoExc
         /\ calls' = set_volume(Registry, published_msgs[1].app, published_msgs[1].volume)
         /\ UNCHANGED session_status
    ELSE IF playing_app = NoApp
    THEN /\ raised' = "AttributeError"
         /\ calls' = {}
         /\ UNCHANGED session_status
    ELSE /\ raised' = NoExc
         /\ calls' = play_or_pause_current(Registry)
         /\ session_status' = StatusAfter(session_status, calls')

(* RemoteZeroSLListener.callback(event, data) of the driver at position k, *)
(* octets the message of the event.                                        *)
Callback(k, octets) ==
    /\ Running
    /\ k \in 1..Len(port_listeners)
    /\ msgs' = callback_messages(octets)
    /\ Dispatch(msgs', callback_raises(octets))
    /\ wire' = <<Receive(port_listeners[k].port_name, octets)>>
                  \o IF octets = AUTOMAP_ENGAGE_SYSEX
                     THEN update_displays(port_listeners[k].port_name,
                                          port_listeners[k].app_display)
                     ELSE << >>
    /\ published' = FALSE
    /\ UNCHANGED <<port_listeners, midi_in, midi_ins, ports, out_ports, scans, closed,
                   refreshing>>
    /\ UNCHANGED <<apps, app_by_sink_input_index, app_by_player_uri, app_list,
                   playback_status_list, playing_app, lock, max_index,
                   session_starts, polls, killed, History, pc>>

(* MidiListener.__exit__, as the with statement of main ends. *)
Exit ==
    /\ closed = {} /\ Idle /\ Quiet
    /\ port_listeners # << >>
    /\ wire' = exit_listeners(port_listeners)
    /\ closed' = {port_listeners[k].port_name : k \in 1..Len(port_listeners)}
    /\ msgs' = << >>
    /\ UNCHANGED <<port_listeners, midi_in, midi_ins, ports, out_ports, scans,
                   refreshing>>
    /\ UNCHANGED registry_vars

(* Inbound messages: every control change, and messages of other shapes. *)
DataBytes == 0..127

(* The values the controller sends in a behaviour. *)
SentValues == {0, 1, 2, 64, 126, 127}

ControlChanges == {<<CHAN_16_CC, c, v>> : c \in DataBytes, v \in SentValues}

OtherMessages ==
    {<< >>, <<CHAN_16_CC>>, <<CHAN_16_CC, 16>>, <<CHAN_16_CC, 75>>,
     <<CHAN_16_CC, 16, 127, 0>>, <<CHAN_16_CC, 75, 1, 1>>,
     <<CONTROL_CHANGE, 16, 127>>, <<CONTROL_CHANGE, 75, 1>>, <<144, 60, 100>>,
     <<248>>, AUTOMAP_ENGAGE_SYSEX, SYSEX_PREFIX \o <<END_OF_EXCLUSIVE>>}

(* One controller is plugged in and sends messages. *)
NextDecode ==
    \/ PortsChange(<<FirstPort>>, {FirstPort})
    \/ CheckPorts({})
    \/ \E k \in {1}, octets \in ControlChanges \cup OtherMessages : Callback(k, octets)

SpecDecode == Init /\ [][NextDecode]_vars

(* The slot lists the registry may publish: names of 0, 3, 8 and 9         *)
(* characters; an inactive Application has no session and so no playback   *)
(* status.  The name and the status of a slot are rendered apart, so the   *)
(* active slots vary in one of them at a time.                             *)
MaxDisplaySlots == 2

ShortName == <<109, 112, 118>>

LongName == <<82, 104, 121, 116, 104, 109, 98, 111, 120>>

NameTexts == {<< >>, ShortName, <<65, 117, 100, 97, 99, 105, 116, 121>>, LongName}

Views ==
    {View(FALSE, text, None) : text \in {<< >>, LongName}}
        \cup {View(TRUE, text, None) : text \in NameTexts}
        \cup {View(TRUE, ShortName, status) : status \in PlaybackStatus}

SlotLists == UNION {[1..n -> Views] : n \in 0..MaxDisplaySlots}

(* One controller is plugged in and shows the slot lists published. *)
NextDisplay ==
    \/ PortsChange(<<FirstPort>>, {FirstPort})
    \/ CheckPorts({})
    \/ \E views \in SlotLists : SetApplicationList(views)

SpecDisplay == Init /\ [][NextDisplay]_vars

(* The ports of two controllers and of another device come and go, in any *)
(* order, their input and output sides apart; opening an input port may    *)
(* fail.                                                                   *)
Controllers == {port_name \in PortNames : get_class(port_name) # None}

NextPorts ==
    \/ \E names \in PortLists, outs \in SUBSET Controllers : PortsChange(names, outs)
    \/ \E failing \in SUBSET Controllers : CheckPorts(failing)
    \/ Exit

SpecPorts == Init /\ [][NextPorts]_vars

-----------------------------------------------------------------------------
(* Properties of the inbound decode *)

(* The message the driver received in this step, if it received one. *)
Received == IF wire' # << >> /\ wire'[1].event = "receive" THEN {wire'[1].frame} ELSE {}

IsControlChange(octets) ==
    /\ Len(octets) = 3
    /\ octets[1] = 191
    /\ octets[2] \in 0..127
    /\ octets[3] \in 0..127

(* The level v/127: 0.0 for v = 0, 1.0 for v = 127. *)
ReferenceLevel(v) ==
    IF v = 0 THEN [num |-> 0, den |-> 1]
    ELSE IF v = 127 THEN [num |-> 1, den |-> 1]
    ELSE [num |-> v, den |-> 127]

(* What a control change of control c and value v publishes. *)
Reference(c, v) ==
    IF c \in 16..23
    THEN <<[message |-> "set_volume", app |-> c - 16, volume |-> ReferenceLevel(v),
            apps |-> << >>]>>
    ELSE IF c = 75 /\ v = 1
    THEN <<[message |-> "play_or_pause", app |-> NoSlot, volume |-> NoVolume,
            apps |-> << >>]>>
    ELSE << >>

(* C12: for every control-change message (status 0xBF, control c and value *)
(* v in 0..127) the driver publishes what the reference says: exactly one  *)
(* set_volume(slot k, level v/127) for c = 16+k, k in 0..7, exactly one    *)
(* play_or_pause with no slot for c = 75 and v = 1, and nothing otherwise. *)
(* The first conjunct is the decode of all 128 x 128 messages, the second  *)
(* what the callback publishes on the messages the controller sends.       *)
C12_DecodeMatchesReference ==
    /\ \A c \in 0..127, v \in 0..127 :
          callback_messages(<<191, c, v>>) = Reference(c, v)
    /\ [][\A octets \in Received :
             IsControlChange(octets) => msgs' = Reference(octets[2], octets[3])]_vars

(* C12's case: the last fader at its top, and the release of the play button. *)
C12_Witness ==
    /\ wire # << >>
    /\ wire[1] = Receive(FirstPort, <<191, 23, 127>>)
    /\ msgs = <<Message("set_volume", 7, Ratio(1, 1))>>

C12_WitnessRelease ==
    /\ wire # << >>
    /\ wire[1] = Receive(FirstPort, <<191, 75, 0>>)
    /\ msgs = << >>

-----------------------------------------------------------------------------
(* Properties of the display *)

(* The slot lists published in this step. *)
PublishedLists ==
    {msgs'[k].apps : k \in {j \in 1..Len(msgs') : msgs'[j].message = "set_application_list"}}

(* The 8 characters of slot n (counted from 1) in a display line: the      *)
(* fields are joined by one blank.                                         *)
Field(text, n) == SubSeq(text, 9 * (n - 1) + 1, 9 * (n - 1) + 8)

FieldsOf(text, n) == Len(text) = (IF n = 0 THEN 0 ELSE 9 * n - 1)

NameAsShown(view, field) ==
    IF ~view.active THEN field = <<45, 45, 45, 45, 45, 45, 45, 45>>
    ELSE IF Len(view.name) > 8 THEN field = SubSeq(view.name, 1, 8)
    ELSE /\ SubSeq(field, 1, Len(view.name)) = view.name
         /\ \A i \in Len(view.name) + 1..8 : field[i] = 32

StatusAsShown(view, field) ==
    view.status = None => field = <<32, 32, 32, 32, 32, 32, 32, 32>>

Rendered(views, app_display) ==
    /\ Len(app_display) = 2
    /\ FieldsOf(app_display[1], Len(views))
    /\ FieldsOf(app_display[2], Len(views))
    /\ \A n \in 1..Len(views) :
          /\ Len(Field(app_display[1], n)) = 8
          /\ Len(Field(app_display[2], n)) = 8
          /\ NameAsShown(views[n], Field(app_display[1], n))
          /\ StatusAsShown(views[n], Field(app_display[2], n))

(* C13: set_application_list renders every slot of every slot list as      *)
(* exactly 8 name characters and exactly 8 status characters: 8 dashes for *)
(* an inactive slot, the first 8 characters of a longer active name, a     *)
(* shorter name (the empty one included) padded with blanks to 8, and 8    *)
(* blanks for a missing playback status.                                   *)
C13_SlotsRenderedInEightCharacters ==
    [][\A views \in PublishedLists :
          \A k \in 1..Len(port_listeners') :
             Rendered(views, port_listeners'[k].app_display)]_vars

(* C13's case: a 9-character name cut to 8 beside an inactive slot whose   *)
(* Application has the empty name, neither with a playback status.         *)
C13_Witness ==
    /\ msgs # << >>
    /\ msgs[1].apps = <<View(TRUE, <<82, 104, 121, 116, 104, 109, 98, 111, 120>>, None),
                        View(FALSE, << >>, None)>>
    /\ port_listeners[1].app_display[1]
          = <<82, 104, 121, 116, 104, 109, 98, 111, 32, 45, 45, 45, 45, 45, 45, 45, 45>>

(* The frames the last operation sent. *)
SentFrames == {wire[k].frame : k \in {j \in 1..Len(wire) : wire[j].event = "send"}}

WellFormedSysEx(frame) ==
    /\ Len(frame) >= 6
    /\ frame[1] = 240
    /\ SubSeq(frame, 2, 4) = <<0, 32, 41>>
    /\ frame[Len(frame)] = 247
    /\ \A i \in 2..Len(frame) - 1 : frame[i] < 128

(* C14: every clear-display and show-text frame the driver sends is a      *)
(* well-formed vendor SysEx frame: F0, the manufacturer ID 00 20 29, the   *)
(* model/command bytes, the payload and a final F7, with only 7-bit data   *)
(* bytes between the leading F0 and the final F7.                          *)
C14_FramesWellFormed ==
    \A frame \in SentFrames : frame # AUTOMAP_ENGAGE_SYSEX => WellFormedSysEx(frame)

-----------------------------------------------------------------------------
(* Properties of the port watcher *)

OwnedPorts == {port_listeners[k].port_name : k \in 1..Len(port_listeners)}

(* This step is a call of check_ports. *)
CheckPortsStep == \E failing \in SUBSET Controllers : CheckPorts(failing)

(* The events of the step at one port, in order. *)
AtPort(port_name) == SelectSeq(wire', LAMBDA e : e.port = port_name)

(* C15: a check_ports scan that finds a port of a live driver absent from  *)
(* the port list invokes that driver's shutdown sequence and drops the     *)
(* port from the owned ports, so that the port gets a fresh driver when it *)
(* reappears.                                                              *)
C15_VanishedPortsDropped ==
    [][CheckPortsStep =>
          \A port_name \in OwnedPorts \ Range(ports) :
             /\ AtPort(port_name) = shutdown(port_name)
             /\ port_name \notin OwnedPorts']_vars

(* The listed controller ports without a driver when the call begins. *)
Unowned == {port_name \in Range(ports) \cap Controllers : port_name \notin OwnedPorts}

(* What C16 says of a check_ports call in which open_port fails for the    *)
(* ports of failing.                                                       *)
FailuresSkipped(failing) ==
    /\ raised' = NoExc
    /\ \A port_name \in Unowned :
          port_name \in OwnedPorts' <=> (port_name \notin failing /\ port_name \in out_ports)

(* C16: when opening a recognized port or constructing its driver fails    *)
(* (the input port cannot be opened, or no matching output port is found), *)
(* check_ports does not raise, records no driver for that port, still      *)
(* scans the remaining ports, and tries the port again on the next call.   *)
C16_OpenFailuresNotFatal ==
    [][\A failing \in SUBSET Controllers :
          CheckPorts(failing) => FailuresSkipped(failing)]_vars

(* C16 where every listed controller has its output port listed too: the   *)
(* failures left are those of opening the input port.                      *)
C16_InputOpenFailuresNotFatal ==
    [][\A failing \in SUBSET Controllers :
          (CheckPorts(failing) /\ Unowned \subseteq out_ports)
             => FailuresSkipped(failing)]_vars

-----------------------------------------------------------------------------
(* Properties of Application.name *)

(* C17: Application.name() returns a display string without raising in     *)
(* every reachable state of every tracked Application, an inactive one     *)
(* that lost its session and never had a stream included, and no reconcile *)
(* raises while it evaluates the identity of such a slot.                  *)
C17_NameNeverRaises ==
    /\ \A id \in DOMAIN apps : ~name_raises(apps[id])
    /\ raised # "KeyError"

(* C17's second part alone: no reconcile ends in the KeyError of name(). *)
C17_ReconcileNeverRaises == raised # "KeyError"

-----------------------------------------------------------------------------
(* Properties of the handling of malformed messages *)

(* A well-formed fader or play control change. *)
IsFaderOrPlay(octets) ==
    /\ IsControlChange(octets)
    /\ \/ octets[2] \in 16..23
       \/ octets[2] = 75 /\ octets[3] = 1

(* C18: an inbound message of any length and content that is not a         *)
(* well-formed fader or play control change, one that begins with the      *)
(* control-change status 0xBF but carries fewer or more than two data      *)
(* bytes included, is handled without raising and publishes no message.    *)
C18_MalformedMessagesIgnored ==
    [][\A octets \in Received :
          ~IsFaderOrPlay(octets) => (raised' = NoExc /\ msgs' = << >>)]_vars

(* C18 for the messages that are not control changes on channel 16, the    *)
(* empty message left aside.                                               *)
C18_OtherStatusIgnored ==
    [][\A octets \in Received :
          (octets # << >> /\ octets[1] # 191) => (raised' = NoExc /\ msgs' = << >>)]_vars

-----------------------------------------------------------------------------
(* Properties of the shutdown *)

(* A frame that clears display region display: its command bytes and end. *)
ClearsDisplay(frame, display) ==
    /\ Len(frame) >= 5
    /\ SubSeq(frame, Len(frame) - 4, Len(frame)) = <<0, 2, 2, display, 247>>

Closes(events) == {i \in 1..Len(events) : events[i].event = "close"}

ClearedThenClosed(events) ==
    /\ Cardinality(Closes(events)) = 1
    /\ \A c \in Closes(events) :
          /\ \A display \in {4, 5} :
                \E i \in 1..c - 1 : /\ events[i].event = "send"
                                    /\ ClearsDisplay(events[i].frame, display)
          /\ \A i \in c + 1..Len(events) : events[i].event # "send"

(* C19: when a driver is shut down, and on MidiListener exit every live    *)
(* driver is, clear-display frames for both display regions (0x04, 0x05)   *)
(* are sent before the transport port is closed, and the shutdown sends no *)
(* frame after the close.                                                  *)
C19_DisplaysClearedBeforeClose ==
    [][closed' # closed =>
          /\ closed' = OwnedPorts
          /\ \A port_name \in closed' : ClearedThenClosed(AtPort(port_name))]_vars

(* C19's case: the exit shut two drivers down. *)
C19_Witness ==
    /\ closed = {FirstPort, SecondPort}
    /\ Len(wire) = 6
    /\ wire[3].event = "close"
    /\ wire[6].event = "close"

-----------------------------------------------------------------------------
(* Properties of the enumeration handle *)

(* The last scan before this check_ports call, if there was one, and the   *)
(* scans of the call.                                                      *)
ScanChain ==
    (IF scans = << >> THEN << >> ELSE <<scans[Len(scans)]>>) \o scans'

(* C20: check_ports creates a new enumeration handle only when the scan    *)
(* before opened a port: a scan that opens no port retains its handle, and *)
(* the next scan, in the same call or in a later one, whatever became of   *)
(* the port list in between, uses that handle.                             *)
C20_HandleReusedAfterIdleScan ==
    [][CheckPortsStep =>
          /\ \A i \in 1..Len(ScanChain) - 1 :
                ~ScanChain[i].opened => ScanChain[i + 1].handle = ScanChain[i].handle
          /\ ~scans'[Len(scans')].opened => midi_in' = scans'[Len(scans')].handle]_vars

(* C20's case: two ports were opened, each by a handle of its own, and a   *)
(* later call scanned with the handle retained since.                      *)
C20_Witness ==
    /\ midi_ins = 3
    /\ scans = <<Scan(3, FALSE)>>
    /\ midi_in = 3
    /\ Len(port_listeners) = 2

-----------------------------------------------------------------------------
(* Properties of Application.set_volume *)

(* The kind whose session does not respond to volume changes. *)
StreamingClient(app) == app.kind = "Spotify"

SessionVolume(app) == app.mpris_player # None /\ ~StreamingClient(app)

(* C21: Application.set_volume(level) sets exactly the session volume and  *)
(* touches no mixer stream when a media session is attached and the kind   *)
(* allows session volume control; otherwise (no session attached, or the   *)
(* streaming-client kind even with its session attached) it sets the level *)
(* on every active backing mixer stream and leaves the session volume      *)
(* alone.                                                                  *)
C21_VolumeTarget ==
    [][\A slot \in 0..(Len(app_list) - 1), level \in Levels :
          SetVolume(slot, level) =>
            LET app == SlotApp(slot + 1)
            IN IF SessionVolume(app)
               THEN calls' = {[call |-> "Volume", sink_input |-> NoSi,
                               player |-> app.mpris_player, arg |-> level]}
               ELSE calls' = {[call |-> "volume_set_all_chans", sink_input |-> si,
                               player |-> None, arg |-> level] :
                                 si \in app.active_sink_inputs}]_vars

(* C21's case: the streaming client, its session attached, had the level   *)
(* set on its mixer stream.                                                *)
C21_Witness ==
    /\ \E c \in calls : c.call = "volume_set_all_chans"
    /\ \A c \in calls :
          /\ c.call = "volume_set_all_chans"
          /\ c.sink_input \in DOMAIN app_by_sink_input_index
          /\ apps[app_by_sink_input_index[c.sink_input]].kind = "Spotify"
          /\ apps[app_by_sink_input_index[c.sink_input]].mpris_player = SpotifyUri

(* C21's other case: a session that takes volume changes had its volume set. *)
C21_WitnessSession ==
    calls = {Call("Volume", NoSi, VlcUri, 127)}

-----------------------------------------------------------------------------
(* Properties of the index maps *)

MapsTo(map, key, id) == key \in DOMAIN map /\ map[key] = id

(* C22: between reconciles the index maps agree with the backing           *)
(* references of the Applications: stream index i maps to Application A    *)
(* iff i is one of A's active backing streams, session URI u maps to A iff *)
(* A has that media session attached; so a tracked stream or session backs *)
(* exactly one Application, and no Application is in two slots.            *)
C22_IndexMapsAgree ==
    /\ \A id \in DOMAIN apps :
          /\ \A i \in 1..max_index :
                MapsTo(app_by_sink_input_index, i, id) <=> i \in apps[id].active_sink_inputs
          /\ \A u \in Uris :
                MapsTo(app_by_player_uri, u, id) <=> apps[id].mpris_player = u
          /\ apps[id].active_sink_inputs \subseteq 1..max_index
          /\ apps[id].mpris_player \in Uris \cup {None}
    /\ Range(app_by_sink_input_index) \cup Range(app_by_player_uri) \subseteq DOMAIN apps
    /\ \A n, m \in 1..Len(app_list) : app_list[n] = app_list[m] => n = m

(* C22's case: one Application backed by a stream and by a session, a      *)
(* second one backed by a stream, and a slot whose Application lost its    *)
(* backing.                                                                *)
C22_Witness ==
    /\ \E id \in DOMAIN apps :
          apps[id].active_sink_inputs # {} /\ apps[id].mpris_player # None
    /\ Cardinality(Range(app_by_sink_input_index)) >= 2
    /\ \E n \in 1..Len(app_list) : ~active(apps[app_list[n]])

-----------------------------------------------------------------------------
(* Properties of the grouping *)

AddedSessions == DOMAIN app_by_player_uri' \ DOMAIN app_by_player_uri

(* The first of the streams this step attached to the Application id. *)
FirstAttached(i) ==
    \A j \in AddedStreams : app_by_sink_input_index'[j] = app_by_sink_input_index'[i] => i <= j

(* C23: a reconcile attaches a new stream or session to an Application     *)
(* that exists already only if that Application wants it and is active at  *)
(* that moment: a wanting Application that is inactive is not extended,    *)
(* the source gets a new Application, which goes through slot assignment.  *)
(* A stream meets the Applications as the removals of the step left them,  *)
(* a session meets them with the streams of the step in place.             *)
C23_AttachOnlyToActive ==
    [][/\ \A i \in AddedStreams :
            (app_by_sink_input_index'[i] \in DOMAIN apps /\ FirstAttached(i)) =>
               /\ wants_sink_input(apps[app_by_sink_input_index'[i]], i)
               /\ active(AfterRemovals.apps[app_by_sink_input_index'[i]])
       /\ \A u \in AddedSessions :
            app_by_player_uri'[u] \in DOMAIN apps =>
               /\ wants_player_uri(apps[app_by_player_uri'[u]], u)
               /\ apps'[app_by_player_uri'[u]].active_sink_inputs # {}]_vars

(* C23 without the condition on activity: a source is attached only to an  *)
(* Application that wants it.                                              *)
C23_AttachOnlyToWanting ==
    [][/\ \A i \in AddedStreams :
            app_by_sink_input_index'[i] \in DOMAIN apps =>
               wants_sink_input(apps[app_by_sink_input_index'[i]], i)
       /\ \A u \in AddedSessions :
            app_by_player_uri'[u] \in DOMAIN apps =>
               wants_player_uri(apps[app_by_player_uri'[u]], u)]_vars

(* C24: in every reachable registry state the "currently playing" pointer  *)
(* is unset or refers to an Application that occupies a slot of the slot   *)
(* table and has a media session attached: it does not keep referring to   *)
(* an Application whose session vanished or that was evicted.              *)
C24_PointerTracked ==
    playing_app # NoApp =>
       /\ playing_app \in Range(app_list)
       /\ apps[playing_app].mpris_player # None

(* C24's two parts apart, in the states no exception has led to. *)
C24_PointerHasSession ==
    (playing_app # NoApp /\ ~killed) => apps[playing_app].mpris_player # None

C24_PointerInTable ==
    (playing_app # NoApp /\ ~killed) => playing_app \in Range(app_list)

-----------------------------------------------------------------------------
(* update_displays statement by statement, as two threads run it on one    *)
(* driver at once: the poll thread from set_application_list, the callback *)
(* thread from the engage echo.  The driver takes no lock.  While a        *)
(* refresh is under way, wire collects what both threads send, in order.   *)

(* Refreshes a thread may begin before both threads are at rest again. *)
MaxRefreshes == 1

AtRest == Step("idle", << >>, 0, 0)

(* Both threads at rest: the next refresh starts a new record in wire. *)
Rest(positions) ==
    IF \A t \in Threads : positions[t].at = "idle"
    THEN [t \in Threads |-> AtRest]
    ELSE positions

(* A thread calls update_displays. *)
Enter(t) ==
    /\ ~killed /\ closed = {} /\ Idle
    /\ Len(port_listeners) = 1
    /\ refreshing[t].at = "idle"
    /\ refreshing[t].ran < MaxRefreshes
    /\ refreshing' = [refreshing EXCEPT ![t] = Step("clear_4", << >>, 0, refreshing[t].ran + 1)]

(* One statement of update_displays: what it sends and where it goes on.   *)
(* The for statement evaluates self.app_display once, as it begins, and    *)
(* iterates the list it got.                                               *)
update_displays_step(port, s, app_display) ==
    IF s.at = "clear_4"
    THEN [sent |-> <<Send(port, clear_display_frame(4))>>, next |-> [s EXCEPT !.at = "clear_5"]]
    ELSE IF s.at = "clear_5"
    THEN [sent |-> <<Send(port, clear_display_frame(5))>>, next |-> [s EXCEPT !.at = "title"]]
    ELSE IF s.at = "title"
    THEN [sent |-> <<show_text(port, 0, 0, 0, Title)>>, next |-> [s EXCEPT !.at = "for"]]
    ELSE IF s.at = "for"
    THEN [sent |-> << >>,
          next |-> IF app_display = << >>
                   THEN Step("idle", << >>, 0, s.ran)
                   ELSE Step("show_text", app_display, 0, s.ran)]
    ELSE [sent |-> <<show_text(port, 1, s.line, 0, s.lines[s.line + 1])>>,
          next |-> IF s.line + 1 = Len(s.lines)
                   THEN Step("idle", << >>, 0, s.ran)
                   ELSE [s EXCEPT !.line = s.line + 1]]

(* RemoteZeroSLListener.set_application_list on the poll thread: it stores *)
(* the rendered lines and calls update_displays.                           *)
BeginSetApplicationList(views) ==
    /\ Enter("poll")
    /\ port_listeners' = <<Listener(port_listeners[1].port_name, set_application_list(views))>>
    /\ wire' = IF Quiet THEN << >> ELSE wire
    /\ msgs' = <<[Message("set_application_list", NoSlot, NoVolume) EXCEPT !.apps = views]>>
    /\ UNCHANGED <<midi_in, midi_ins, ports, out_ports, scans, closed>>
    /\ UNCHANGED registry_vars

(* RemoteZeroSLListener.callback on the callback thread, the message the   *)
(* engage echo: after the delay it calls update_displays.                  *)
EngageEcho ==
    /\ Enter("callback")
    /\ wire' = (IF Quiet THEN << >> ELSE wire)
                  \o <<Receive(port_listeners[1].port_name, AUTOMAP_ENGAGE_SYSEX)>>
    /\ msgs' = callback_messages(AUTOMAP_ENGAGE_SYSEX)
    /\ Dispatch(msgs', callback_raises(AUTOMAP_ENGAGE_SYSEX))
    /\ published' = FALSE
    /\ UNCHANGED <<port_listeners, midi_in, midi_ins, ports, out_ports, scans, closed>>
    /\ UNCHANGED <<apps, app_by_sink_input_index, app_by_player_uri, app_list,
                   playback_status_list, playing_app, lock, max_index,
                   session_starts, polls, killed, History, pc>>

(* The next statement of update_displays on thread t. *)
UpdateDisplays(t) ==
    /\ ~killed /\ closed = {} /\ Idle
    /\ refreshing[t].at # "idle"
    /\ \E r \in {update_displays_step(port_listeners[1].port_name, refreshing[t],
                                      port_listeners[1].app_display)} :
          /\ wire' = wire \o r.sent
          /\ refreshing' = Rest([refreshing EXCEPT ![t] = r.next])
    /\ UNCHANGED <<port_listeners, midi_in, midi_ins, ports, out_ports, scans, msgs, closed>>
    /\ UNCHANGED registry_vars

(* The slot lists published while the controller echoes. *)
RefreshLists ==
    {<<View(TRUE, ShortName, None)>>, <<View(TRUE, LongName, PLAYING)>>}

(* One controller is plugged in; the registry publishes slot lists while   *)
(* the controller sends engage echoes.                                     *)
NextRefresh ==
    \/ PortsChange(<<FirstPort>>, {FirstPort})
    \/ CheckPorts({})
    \/ \E views \in RefreshLists : BeginSetApplicationList(views)
    \/ EngageEcho
    \/ \E t \in Threads : UpdateDisplays(t)

SpecRefresh == Init /\ [][NextRefresh]_vars

-----------------------------------------------------------------------------
(* Properties of concurrent display refreshes *)

(* The driver's rendered lines, once a slot list was published. *)
Display == IF port_listeners = << >> THEN << >> ELSE port_listeners[1].app_display

(* A frame that writes the given line of the application display. *)
WritesLine(frame, line) ==
    \E n \in 1..Len(frame) :
       /\ n = Len(show_text_frame(1, line, 0, << >>)) - 1
       /\ n < Len(frame)
       /\ SubSeq(frame, 1, n) = SubSeq(show_text_frame(1, line, 0, << >>), 1, n)

(* Where in wire the given line was written. *)
Written(line) ==
    {i \in 1..Len(wire) : wire[i].event = "send" /\ WritesLine(wire[i].frame, line)}

(* The two refreshes of the record in wire overlapped. *)
Overlapped ==
    /\ \E i \in 1..Len(wire) : wire[i].event = "receive"
    /\ msgs # << >>
    /\ \A line \in 0..1 : Cardinality(Written(line)) = 2

(* C25: when the engage-echo refresh and set_application_list have both    *)
(* finished, the text last written to each display line is that of the     *)
(* most recently published slot list.                                      *)
C25_LatestListShown ==
    (Quiet /\ Display # << >>) =>
       \A line \in 0..1 :
          Written(line) # {} =>
             wire[SetMax(Written(line))].frame = show_text_frame(1, line, 0, Display[line + 1])

(* C25, step by step: a line written to the display is a line of the slot  *)
(* list published last.                                                    *)
C25_NoStaleLine ==
    [][\A t \in Threads :
          (refreshing[t].at = "show_text" /\ refreshing'[t] # refreshing[t]) =>
             refreshing[t].lines = Display]_vars

(* Both refreshes ran to their end, one inside the other. *)
C25_Overlap == ~(Quiet /\ Overlapped)

-----------------------------------------------------------------------------
(* Properties of the rescan loop of check_ports *)

(* How many drivers own the port after the step. *)
Owners(port_name) ==
    Cardinality({k \in 1..Len(port_listeners') : port_listeners'[k].port_name = port_name})

(* How often the step opened the input port. *)
Opens(port_name) ==
    Cardinality({i \in 1..Len(wire') :
                    wire'[i].event = "open_in" /\ wire'[i].port = port_name})

(* What C26 says of a check_ports call that returns, open_port failing for *)
(* the ports of failing.                                                   *)
ScannedToTheEnd(failing) ==
    /\ \A i \in 1..Len(scans') : scans'[i].opened <=> i < Len(scans')
    /\ Len(scans') = Len(port_listeners') - Len(port_listeners) + 1
    /\ \A port_name \in (Range(ports) \cap Controllers) \ failing : Owners(port_name) = 1
    /\ \A port_name \in PortNames : Owners(port_name) <= 1
    /\ \A port_name \in PortNames :
          Opens(port_name) <= IF port_name \in OwnedPorts THEN 0 ELSE 1

(* C26: check_ports ends for every port list, its loop scanning again only *)
(* after a scan that opened a port; when it returns, every listed port of  *)
(* a known device whose open did not fail is owned by exactly one driver,  *)
(* and no port was opened twice.                                           *)
C26_RescanEndsWithPortsOwnedOnce ==
    [][\A failing \in SUBSET Controllers :
          (CheckPorts(failing) /\ raised' = NoExc) => ScannedToTheEnd(failing)]_vars

(* One call opened both controllers: two scans that opened a port and the  *)
(* scan that found nothing left to open.                                   *)
C26_Witness ==
    /\ raised = NoExc
    /\ Len(scans) = 3
    /\ OwnedPorts = Controllers
    /\ Controllers \subseteq Range(ports)

(* A call returned with a listed controller left out: its open failed. *)
C26_WitnessFailedOpen ==
    /\ raised = NoExc
    /\ Len(scans) = 2
    /\ Cardinality(OwnedPorts) = 1
    /\ Controllers \subseteq Range(ports)

====
